---------------------------- MODULE Spec2Model ----------------------------
(***************************************************************************)
(* A model of kamscan's two C++ programs:                                  *)
(*                                                                         *)
(*   undistort.cc     class Image (a PNM raster with bounds-checked        *)
(*                    get/set and bilinear sampling), its stream           *)
(*                    operators, and the Python-callable undistort()       *)
(*   analyze_scan.cc  main(): corner-response histogram and the            *)
(*                    descending threshold search                          *)
(*                                                                         *)
(* Three state machines share the module.  SpecImage drives one Image      *)
(* object through its public operations.  SpecUndistort follows one call   *)
(* of undistort() statement by statement.  SpecScan follows main() of      *)
(* analyze_scan.                                                           *)
(*                                                                         *)
(* Numbers.  A C++ int is a TLA+ integer inside the bounds below, where no *)
(* int overflows.  An int member that was never assigned has no field in   *)
(* the object's record; a read of it yields any int.  A float is a         *)
(* rational n / Den with Den a power of two: on such values (and the small *)
(* sample values used here) every float operation of the code is exact, so *)
(* the rational arithmetic below is the float arithmetic of the code.      *)
(***************************************************************************)
EXTENDS Integers, Sequences, FiniteSets

VARIABLES
    image,          \* SpecImage: the Image object (width, height, channels, channel_size, data)
    alive,          \* SpecImage: "default" | "live" | "thrown" (operator>> threw)
    last,           \* SpecImage: the last operation applied, its arguments and result
    written,        \* SpecImage: whether set has been called on the object
    pc,             \* undistort(): position in the function
    args,           \* undistort(): the corner arguments x0, y0, ..., x3, y3
    file,           \* undistort(): the content of `filename` when the call starts
    providers,      \* undistort(): what the three Lensfun modifiers compute in this run
    ncameras,       \* undistort(): entries in `cameras` (-1 before the lookup)
    nlenses,        \* undistort(): entries in `lenses` (-1 before the lookup)
    err,            \* undistort(): the error raised (PyErr_SetString or a C++ exception)
    src,            \* undistort(): the local `image`
    new_image,      \* undistort(): the local `new_image`
    res,            \* undistort(): the local `res`, source coordinates over Den
    px, py,         \* undistort(): loop variables x, y of the remap loop
    xs, ys,         \* undistort(): the local vectors x, y
    xs_undist, ys_undist, \* undistort(): the local vectors x_undist, y_undist
    disk,           \* undistort(): what this run wrote to `filename`
    ret,            \* undistort(): how the call ended and the value returned
    dst_norm,       \* analyze_scan: the normalised corner response, row-major
    occurences,     \* analyze_scan: occurences[quadrant][index]
    corners_found,  \* analyze_scan: corners_found[quadrant]
    threshold,      \* analyze_scan: threshold
    spc,            \* analyze_scan: position in main()
    points          \* analyze_scan: the points written to stdout, in order

imgVars  == <<image, alive, last, written>>
undVars  == <<pc, args, file, providers, ncameras, nlenses, err, src, new_image,
              res, px, py, xs, ys, xs_undist, ys_undist, disk, ret>>
scanVars == <<dst_norm, occurences, corners_found, threshold, spc, points>>
vars     == <<imgVars, undVars, scanVars>>

----------------------------------------------------------------------------
(* Bounds of the model *)

\* Rasters are 1..MaxDim pixels wide and high.
MaxDim == 2
\* A database lookup returns 0..MaxMatches entries.
MaxMatches == 2
\* Each corner argument lies 0..MaxSkew pixels right of and below its place
\* in the rectangle (10, 10), (90, 10), (10, 90), (90, 90).
MaxSkew == 1
\* Number of byte patterns a stream's pixel data is drawn from.
MaxPattern == 1

\* A float coordinate is a multiple of 1 / Den: here, of one half.
Den == 2

\* The int arguments given to Image::set.
Values == {-1, 1, 258}

\* What an uninitialised int member may hold: any int.
Indeterminate == (-2147483647 - 1)..2147483647

\* sizeof(cameras), the size of a pointer
SizeofPointer == 8

\* The corner response has 1..2 rows and 1..MaxCols columns.
MaxCols == 2

\* The values of the normalised corner response, over Den: 0, 127.5 and 255
ScanValues == {0, 255, 510}

\* int occurences[4][256]: the number of histogram bins
Bins == 256

----------------------------------------------------------------------------
(* C++ integer conversions and operators *)

\* static_cast<unsigned char>(v)
ToUChar(v) == v % 256

\* v >> 8 on int (arithmetic shift)
Shr8(v) == v \div 256

\* a & b on int, for a mask b >= 0 (two's complement)
RECURSIVE BitAnd(_, _)
BitAnd(a, b) ==
    IF b = 0 THEN 0
    ELSE (a % 2) * (b % 2) + 2 * BitAnd(a \div 2, b \div 2)

\* static_cast<int>(x) of the float x = n / Den: truncation towards zero
FloatToInt(n) == IF n >= 0 THEN n \div Den ELSE -((-n) \div Den)

\* std::modf(x, &dummy) of the float x = n / Den, as a numerator over Den:
\* the fractional part carries the sign of x
Modf(n) == n - Den * FloatToInt(n)

\* static_cast<int>(std::round(n / d)), d > 0: halfway cases away from zero
Round(n, d) ==
    IF n >= 0 THEN (2 * n + d) \div (2 * d)
    ELSE -((2 * (-n) + d) \div (2 * d))

Min(a, b) == IF a < b THEN a ELSE b
Max(a, b) == IF a > b THEN a ELSE b

----------------------------------------------------------------------------
(* class Image *)

Zeros(n) == [i \in 1..n |-> 0]

\* Image::Image(int width, int height, int channel_size, int channels)
ImageCtor(width, height, channel_size, channels) ==
    [width |-> width, height |-> height, channel_size |-> channel_size,
     channels |-> channels,
     data |-> Zeros(width * height * channel_size * channels)]

\* Image::Image(): data is empty and no int member is assigned.  The object
\* has a field for a member from the member's first assignment on.
ImageDefault == [data |-> << >>]

\* other.member = v
Assign(other, member, v) ==
    [f \in DOMAIN other \cup {member} |-> IF f = member THEN v ELSE other[f]]

\* What a read of an int member yields: the value assigned, or any int when
\* none has been assigned
Reads(img, member) ==
    IF member \in DOMAIN img THEN {img[member]} ELSE Indeterminate

\* The objects in memory that img stands for
Concrete(img) ==
    [width : Reads(img, "width"), height : Reads(img, "height"),
     channel_size : Reads(img, "channel_size"),
     channels : Reads(img, "channels"), data : {img.data}]

\* Image::Image(const Image &image): copies the shape, not the samples
ImageCopy(img) ==
    [width |-> img.width, height |-> img.height,
     channel_size |-> img.channel_size, channels |-> img.channels,
     data |-> Zeros(img.width * img.height * img.channel_size * img.channels)]

\* int position = channel_size * (channels * (y * width + x) + channel)
Position(img, x, y, channel) ==
    img.channel_size * (img.channels * (y * img.width + x) + channel)

\* int Image::get(int x, int y, int channel); data[p] of the code is data[p + 1] here
get(img, x, y, channel) ==
    IF x < 0 \/ x >= img.width \/ y < 0 \/ y >= img.height
    THEN 0
    ELSE LET position == Position(img, x, y, channel)
             result == img.data[position + 1]
         IN  IF img.channel_size = 2
             THEN result * 256 + img.data[position + 2]
             ELSE result

\* int Image::get(float x, float y, int channel), x = xn / Den, y = yn / Den
get_float(img, xn, yn, channel) ==
    LET x0 == FloatToInt(xn)
        y0 == FloatToInt(yn)
        i0 == get(img, x0, y0, channel)
        i1 == get(img, x0 + 1, y0, channel)
        i2 == get(img, x0, y0 + 1, channel)
        i3 == get(img, x0 + 1, y0 + 1, channel)
        fraction_x == Modf(xn)
        i01 == (Den - fraction_x) * i0 + fraction_x * i1    \* over Den
        i23 == (Den - fraction_x) * i2 + fraction_x * i3    \* over Den
        fraction_y == Modf(yn)
    IN  Round((Den - fraction_y) * i01 + fraction_y * i23, Den * Den)

\* Image::set without the test x < width
set_no_width_check(img, x, y, channel, value) ==
    IF x >= 0 /\ y >= 0 /\ y < img.height
    THEN LET position == Position(img, x, y, channel)
         IN  IF img.channel_size = 1
             THEN [img EXCEPT !.data[position + 1] = ToUChar(value)]
             ELSE IF img.channel_size = 2
             THEN [img EXCEPT !.data[position + 1] = ToUChar(Shr8(value)),
                              !.data[position + 2] = ToUChar(BitAnd(value, 256))]
             ELSE img
    ELSE img

\* void Image::set(int x, int y, int channel, int value)
set(img, x, y, channel, value) ==
    IF x >= 0 /\ x < img.width /\ y >= 0 /\ y < img.height
    THEN LET position == Position(img, x, y, channel)
         IN  IF img.channel_size = 1
             THEN [img EXCEPT !.data[position + 1] = ToUChar(value)]
             ELSE IF img.channel_size = 2
             THEN [img EXCEPT !.data[position + 1] = ToUChar(Shr8(value)),
                              !.data[position + 2] = ToUChar(BitAnd(value, 256))]
             ELSE img
    ELSE img

\* std::vector<unsigned char>::resize(n): keeps the prefix, zero-fills the rest
Resize(data, n) == [i \in 1..n |-> IF i <= Len(data) THEN data[i] ELSE 0]

\* std::istream::read(dest, n): copies the bytes the stream still has
ReadInto(data, bytes, n) ==
    [i \in 1..Len(data) |-> IF i <= n /\ i <= Len(bytes) THEN bytes[i] ELSE data[i]]

\* std::istream& operator>>(std::istream&, Image &other), on a stream whose
\* header holds the four tokens magic, width, height, maxval.
\* Result: the object afterwards, and whether std::runtime_error was thrown.
Parse(other, stream) ==
    IF stream.magic \notin {"P5", "P6"}
    THEN [img |-> other, thrown |-> TRUE]
    ELSE LET c == Assign(other, "channels", IF stream.magic = "P5" THEN 1 ELSE 3)
             a == Assign(Assign(c, "width", stream.width), "height", stream.height)
         IN  IF stream.maxval \notin {255, 65535}
             THEN [img |-> a, thrown |-> TRUE]
             ELSE LET b == Assign(a, "channel_size",
                                  IF stream.maxval = 255 THEN 1 ELSE 2)
                      size == b.width * b.height * b.channel_size * b.channels
                      resized == Resize(b.data, size)
                  IN  [img |-> [b EXCEPT !.data = ReadInto(resized, stream.bytes, size)],
                       thrown |-> FALSE]

\* std::ostream& operator<<(std::ostream&, const Image &other)
Serialize(other) ==
    [magic |-> IF other.channels = 3 THEN "P6" ELSE "P5",
     width |-> other.width,
     height |-> other.height,
     maxval |-> IF other.channel_size = 1 THEN 255 ELSE 65535,
     bytes |-> other.data]

----------------------------------------------------------------------------
(* Input streams *)

PatternBytes(k, n) == [i \in 1..n |-> (37 * k + 59 * i) % 256]

StreamSize(magic, w, h, maxval) ==
    w * h * (IF magic = "P6" THEN 3 ELSE 1) * (IF maxval = 65535 THEN 2 ELSE 1)

\* Streams with a complete header: valid and invalid magic numbers and maximum
\* colour values, and pixel data that is complete or one byte short.
Streams ==
    { [magic |-> m, width |-> w, height |-> h, maxval |-> mv,
       bytes |-> PatternBytes(k, StreamSize(m, w, h, mv) - short)] :
         m \in {"P5", "P6", "P9"}, w \in 1..MaxDim, h \in 1..MaxDim,
         mv \in {255, 65535, 100}, k \in 1..MaxPattern, short \in {0, 1} }

----------------------------------------------------------------------------
(* Values of the variables a specification does not use *)

NoOp == [op |-> "none", x |-> 0, y |-> 0, c |-> 0, v |-> 0, result |-> 0,
         before |-> << >>]

NoImage == ImageDefault

ImageIdle ==
    /\ image = NoImage
    /\ alive = "idle"
    /\ last = NoOp
    /\ written = FALSE

NoStream == [magic |-> "", width |-> 0, height |-> 0, maxval |-> 0, bytes |-> << >>]

NoError == [text |-> "", number |-> 0]

NotWritten == [written |-> FALSE, content |-> NoStream]

NotReturned == [kind |-> "none", value |-> << >>]

UndistortIdle ==
    /\ pc = "idle"
    /\ args = << >>
    /\ file = NoStream
    /\ providers = << >>
    /\ ncameras = -1
    /\ nlenses = -1
    /\ err = NoError
    /\ src = NoImage
    /\ new_image = NoImage
    /\ res = << >>
    /\ px = 0
    /\ py = 0
    /\ xs = << >>
    /\ ys = << >>
    /\ xs_undist = << >>
    /\ ys_undist = << >>
    /\ disk = NotWritten
    /\ ret = NotReturned

NoMat == [rows |-> 0, cols |-> 0, at |-> << >>]

ScanIdle ==
    /\ dst_norm = NoMat
    /\ occurences = << >>
    /\ corners_found = << >>
    /\ threshold = 0
    /\ spc = "idle"
    /\ points = << >>

----------------------------------------------------------------------------
(* SpecImage: one Image object and the operations applied to it.           *)
(*                                                                         *)
(* The object is constructed, with dimensions or by default, and then      *)
(* parsed into (when default-constructed, as undistort() does), copied,    *)
(* written by set and read by the two get.  A get does not change the      *)
(* object: what can follow it is what can follow the state before it, so   *)
(* no operation is followed from the state a get leaves.  One call of set  *)
(* is followed per object; a copy is a new object.                         *)

Shapes ==
    { ImageCtor(w, h, cs, ch) : w \in 1..MaxDim, h \in 1..MaxDim,
                                cs \in {1, 2}, ch \in {1, 3} }

\* Every object Image() can leave in memory: the four int members hold any
\* int, the buffer is empty
DefaultImages == Concrete(ImageDefault)

\* The object after Image(width, height, channel_size, channels) or after Image()
InitImage ==
    /\ \/ image \in Shapes /\ alive = "live"
       \/ image = ImageDefault /\ alive = "default"
    /\ last = NoOp
    /\ written = FALSE
    /\ UndistortIdle
    /\ ScanIdle

\* file >> image, as undistort() does on its default-constructed image
Observed == last.op \in {"get", "get_float"}

DoParse ==
    /\ alive = "default"
    /\ \E stream \in Streams :
         LET r == Parse(image, stream)
         IN  /\ image' = r.img
             /\ alive' = IF r.thrown THEN "thrown" ELSE "live"
             /\ last' = [NoOp EXCEPT !.op = "parse", !.before = image.data]
    /\ UNCHANGED <<written, undVars, scanVars>>

\* Image copy = image, the object followed being the copy from here on
DoCopy ==
    /\ alive = "live"
    /\ ~Observed
    /\ image' = ImageCopy(image)
    /\ last' = [NoOp EXCEPT !.op = "copy", !.before = image.data]
    /\ written' = FALSE
    /\ UNCHANGED <<alive, undVars, scanVars>>

\* image.set(x, y, channel, value), in and out of range
DoSet ==
    /\ alive = "live"
    /\ ~Observed
    /\ ~written
    /\ \E x \in -1..image.width, y \in -1..image.height,
          c \in 0..(image.channels - 1), v \in Values :
         /\ image' = set(image, x, y, c, v)
         /\ last' = [op |-> "set", x |-> x, y |-> y, c |-> c, v |-> v,
                     result |-> 0, before |-> image.data]
    /\ written' = TRUE
    /\ UNCHANGED <<alive, undVars, scanVars>>

\* image.get(x, y, channel) with int coordinates, in and out of range
DoGet ==
    /\ alive = "live"
    /\ ~Observed
    /\ \E x \in -1..image.width, y \in -1..image.height,
          c \in 0..(image.channels - 1) :
         last' = [op |-> "get", x |-> x, y |-> y, c |-> c, v |-> 0,
                  result |-> get(image, x, y, c), before |-> image.data]
    /\ UNCHANGED <<image, alive, written, undVars, scanVars>>

\* image.get(x, y, channel) with float coordinates x = xn / Den, y = yn / Den,
\* from one pixel left of (above) the raster to one pixel right of (below) it
DoGetFloat ==
    /\ alive = "live"
    /\ ~Observed
    /\ \E xn \in (-Den)..(image.width * Den), yn \in (-Den)..(image.height * Den),
          c \in 0..(image.channels - 1) :
         last' = [op |-> "get_float", x |-> xn, y |-> yn, c |-> c, v |-> 0,
                  result |-> get_float(image, xn, yn, c), before |-> image.data]
    /\ UNCHANGED <<image, alive, written, undVars, scanVars>>

NextImage == DoParse \/ DoCopy \/ DoSet \/ DoGet \/ DoGetFloat

SpecImage == InitImage /\ [][NextImage]_vars

----------------------------------------------------------------------------
(* Claims about class Image, checked under SpecImage *)

InRange(img, x, y) == x >= 0 /\ x < img.width /\ y >= 0 /\ y < img.height

\* value & 0xFF for one byte per channel, value & 0xFFFF for two
Truncated(value, channel_size) ==
    IF channel_size = 1 THEN value % 256 ELSE value % 65536

\* C1: after set(x, y, channel, value) with (x, y) inside the raster,
\* get(x, y, channel) returns the value truncated to the channel's bit depth
\* (value & 0xFF for 8 bit, value & 0xFFFF for 16 bit).
C1_SetGetRoundTrip ==
    (last.op = "set" /\ InRange(image, last.x, last.y))
        => get(image, last.x, last.y, last.c)
             = Truncated(last.v, image.channel_size)

\* C2: a get with integer coordinates outside the raster returns 0, and a set
\* with such coordinates leaves every byte of the data buffer as it was.
C2_OutOfRangeUntouched ==
    /\ (last.op = "get" /\ ~InRange(image, last.x, last.y))
          => last.result = 0
    /\ (last.op = "set" /\ ~InRange(image, last.x, last.y))
          => image.data = last.before

\* A set one column right of the first row of a raster of two rows whose
\* buffer holds non-zero bytes: unchecked, it would address the second row.
C2_Witness ==
    /\ last.op = "set"
    /\ last.x = image.width
    /\ last.y = 0
    /\ image.height = 2
    /\ \E i \in 1..Len(last.before) : last.before[i] # 0
    /\ ToUChar(last.v) # 0

\* floor of the float n / Den
Floor(n) == n \div Den

\* C3: the result of get with float coordinates lies between the least and
\* the greatest of the four samples at floor(x), floor(x) + 1 and
\* floor(y), floor(y) + 1, for negative coordinates too.
C3_NoOvershoot ==
    last.op = "get_float" =>
        LET x0 == Floor(last.x)
            y0 == Floor(last.y)
            samples == { get(image, x0 + dx, y0 + dy, last.c) :
                           dx \in {0, 1}, dy \in {0, 1} }
        IN  /\ \E lo \in samples : lo <= last.result
            /\ \E hi \in samples : last.result <= hi

\* C9: in every state of an Image object the data buffer holds exactly
\* width * height * channels * channel_size bytes, with 1 or 3 channels of
\* 1 or 2 bytes.  A member that was never assigned may hold any int, so the
\* property has to hold for each object in memory the state stands for.
C9_BufferSize ==
    alive \in {"default", "live", "thrown"} =>
        \A obj \in Concrete(image) :
            /\ obj.channels \in {1, 3}
            /\ obj.channel_size \in {1, 2}
            /\ Len(obj.data)
                 = obj.width * obj.height * obj.channels * obj.channel_size

----------------------------------------------------------------------------
(* undistort(): the Lensfun calls                                          *)
(*                                                                         *)
(* Lensfun is not part of the repository.  What a modifier computes is an  *)
(* input of the run: `providers` names, for each of the three modifiers,   *)
(* one of the coordinate maps below.  Whether a database lookup or an      *)
(* activation succeeds is chosen when the call is made.                    *)

\* modifier.Apply(Subpixel)GeometryDistortion: the source coordinate, over
\* Den, of channel c of the output pixel (x, y)
SourceCoord(kind, x, y, c) ==
    IF kind = "identity" THEN <<x * Den, y * Den>>
    ELSE CASE c = 0 -> <<x * Den - 1, y * Den>>
           [] c = 1 -> <<x * Den, y * Den + 1>>
           [] OTHER -> <<x * Den + 1, y * Den - 1>>

\* The array Lensfun fills: row by row, per pixel one (x, y) pair per
\* coordinate set (1 for ApplyGeometryDistortion, 3 for the subpixel variant)
FullMap(kind, width, height, sets) ==
    [p \in 1..(width * height * 2 * sets) |->
        LET q == p - 1
            pixel == q \div (2 * sets)
            c == (q % (2 * sets)) \div 2
        IN  SourceCoord(kind, pixel % width, pixel \div width, c)[(q % 2) + 1]]

\* pc_coord_modifier / back_modifier .ApplyGeometryDistortion(x, y, 1, 1, result)
PointMap(kind, x, y) ==
    IF kind = "identity" THEN <<x, y>> ELSE <<x + 1, y + 2>>

MapKinds == {"identity", "offset"}

----------------------------------------------------------------------------
(* undistort(): the function, statement by statement *)

\* PyErr_SetString(PyExc_RuntimeError, text); return NULL;
Fail(text, number) ==
    /\ err' = [text |-> text, number |-> number]
    /\ ret' = [kind |-> "NULL", value |-> << >>]
    /\ pc' = "done"

\* The message of the camera lookup's else branch: the format and its %i argument
CameraError(n) ==
    [text |-> "Cannot find unique camera in database.  %i cameras found",
     number |-> SizeofPointer]

\* The message of the lens lookup's two failure branches
LensError(n) ==
    IF n = 0 THEN [text |-> "Cannot find lens in database", number |-> 0]
    ELSE [text |-> "Lens name ambiguous", number |-> 0]

\* if (ldb.Load() != LF_NO_ERROR) ...
LoadDatabase ==
    /\ pc = "load"
    /\ \E ok \in BOOLEAN :
         IF ok
         THEN pc' = "camera" /\ UNCHANGED <<err, ret>>
         ELSE Fail("Database could not be loaded", 0)
    /\ UNCHANGED <<args, file, providers, ncameras, nlenses, src, new_image, res,
                   px, py, xs, ys, xs_undist, ys_undist, disk, imgVars, scanVars>>

\* cameras = ldb.FindCamerasExt(...); if (cameras && !cameras[1]) ... else ...
FindCamera ==
    /\ pc = "camera"
    /\ \E n \in 0..MaxMatches :
         /\ ncameras' = n
         /\ IF n = 1
            THEN pc' = "lens" /\ UNCHANGED <<err, ret>>
            ELSE Fail(CameraError(n).text, CameraError(n).number)
    /\ UNCHANGED <<args, file, providers, nlenses, src, new_image, res,
                   px, py, xs, ys, xs_undist, ys_undist, disk, imgVars, scanVars>>

\* lenses = ldb.FindLenses(...); if (lenses && !lenses[1]) ... else if (!lenses) ... else ...
FindLens ==
    /\ pc = "lens"
    /\ \E n \in 0..MaxMatches :
         /\ nlenses' = n
         /\ IF n = 1
            THEN pc' = "parse" /\ UNCHANGED <<err, ret>>
            ELSE Fail(LensError(n).text, LensError(n).number)
    /\ UNCHANGED <<args, file, providers, ncameras, src, new_image, res,
                   px, py, xs, ys, xs_undist, ys_undist, disk, imgVars, scanVars>>

\* Image image; file >> image;  A std::runtime_error leaves the function.
ParseFile ==
    /\ pc = "parse"
    /\ LET r == Parse(ImageDefault, file)
       IN  IF r.thrown
           THEN /\ err' = [text |-> "std::runtime_error", number |-> 0]
                /\ ret' = [kind |-> "throw", value |-> << >>]
                /\ pc' = "done"
                /\ src' = src
           ELSE /\ src' = r.img
                /\ pc' = "distortion"
                /\ UNCHANGED <<err, ret>>
    /\ UNCHANGED <<args, file, providers, ncameras, nlenses, new_image, res,
                   px, py, xs, ys, xs_undist, ys_undist, disk, imgVars, scanVars>>

\* if (!modifier.EnableDistortionCorrection(lens, 50) || ...back... || ...pc_coord...)
EnableDistortion ==
    /\ pc = "distortion"
    /\ \E ok \in BOOLEAN :
         IF ok
         THEN /\ pc' = IF src.channels = 3 THEN "tca" ELSE "refs"
              /\ UNCHANGED <<err, ret>>
         ELSE Fail("Failed to activate undistortion", 0)
    /\ UNCHANGED <<args, file, providers, ncameras, nlenses, src, new_image, res,
                   px, py, xs, ys, xs_undist, ys_undist, disk, imgVars, scanVars>>

\* if (image.channels == 3) if (!modifier.EnableTCACorrection(lens, 50)) ...
EnableTCA ==
    /\ pc = "tca"
    /\ \E ok \in BOOLEAN :
         IF ok
         THEN pc' = "refs" /\ UNCHANGED <<err, ret>>
         ELSE Fail("Failed to activate un-TCA", 0)
    /\ UNCHANGED <<args, file, providers, ncameras, nlenses, src, new_image, res,
                   px, py, xs, ys, xs_undist, ys_undist, disk, imgVars, scanVars>>

\* The six push_back pairs: x = (x0, x2, x1, x3, x0, x1), y likewise
RefListX(a) == <<a.x0, a.x2, a.x1, a.x3, a.x0, a.x1>>
RefListY(a) == <<a.y0, a.y2, a.y1, a.y3, a.y0, a.y1>>

\* The reference point list and its projection through pc_coord_modifier
BuildRefs ==
    /\ pc = "refs"
    /\ xs' = RefListX(args)
    /\ ys' = RefListY(args)
    /\ xs_undist' = [i \in 1..6 |->
                        PointMap(providers.ref, RefListX(args)[i], RefListY(args)[i])[1]]
    /\ ys_undist' = [i \in 1..6 |->
                        PointMap(providers.ref, RefListX(args)[i], RefListY(args)[i])[2]]
    /\ pc' = "perspective"
    /\ UNCHANGED <<args, file, providers, ncameras, nlenses, err, src, new_image,
                   res, px, py, disk, ret, imgVars, scanVars>>

\* The error is set and the function goes on
PerspectiveFailed_no_return ==
    /\ err' = [text |-> "Failed to activate perspective correction", number |-> 0]
    /\ pc' = "map"
    /\ ret' = ret

\* What follows a failed EnablePerspectiveCorrection
PerspectiveFailed == Fail("Failed to activate perspective correction", 0)

\* if (!modifier.EnablePerspectiveCorrection(...) || !back_modifier.Enable...)
EnablePerspective ==
    /\ pc = "perspective"
    /\ \E ok \in BOOLEAN :
         IF ok
         THEN pc' = "map" /\ UNCHANGED <<err, ret>>
         ELSE PerspectiveFailed
    /\ UNCHANGED <<args, file, providers, ncameras, nlenses, src, new_image, res,
                   px, py, xs, ys, xs_undist, ys_undist, disk, imgVars, scanVars>>

\* std::vector<float> res(...); modifier.Apply...(0, 0, width, height, res.data());
\* Image new_image = image; and the loop variables' first values
ComputeMap ==
    /\ pc = "map"
    /\ res' = FullMap(providers.full, src.width, src.height, src.channels)
    /\ new_image' = ImageCopy(src)
    /\ px' = 0
    /\ py' = 0
    /\ pc' = "remap"
    /\ UNCHANGED <<args, file, providers, ncameras, nlenses, err, src, xs, ys,
                   xs_undist, ys_undist, disk, ret, imgVars, scanVars>>

\* The index taken column by column
ResPosition_by_column(img, x, y) == 2 * img.channels * (x * img.height + y)

\* int position = 2 * image.channels * (y * image.width + x)
ResPosition(img, x, y) == 2 * img.channels * (y * img.width + x)

\* The body of the remap loop for the pixel (x, y); res[p] of the code is res[p + 1]
RemapBody(img, out, r, x, y) ==
    LET position == ResPosition(img, x, y)
        o0 == set(out, x, y, 0, get_float(img, r[position + 1], r[position + 2], 0))
    IN  IF img.channels = 3
        THEN LET o1 == set(o0, x, y, 1,
                           get_float(img, r[position + 3], r[position + 4], 1))
             IN  set(o1, x, y, 2, get_float(img, r[position + 5], r[position + 6], 2))
        ELSE o0

\* One pass of the inner loop, for (x...) for (y...), on a raster of at least
\* one row
RemapPixel ==
    /\ pc = "remap"
    /\ px < src.width
    /\ new_image' = RemapBody(src, new_image, res, px, py)
    /\ IF py + 1 < src.height
       THEN py' = py + 1 /\ px' = px
       ELSE py' = 0 /\ px' = px + 1
    /\ UNCHANGED <<pc, args, file, providers, ncameras, nlenses, err, src, res,
                   xs, ys, xs_undist, ys_undist, disk, ret, imgVars, scanVars>>

\* std::ofstream file(filename, std::ios::binary); file << new_image;
WriteFile ==
    /\ pc = "remap"
    /\ px >= src.width
    /\ disk' = [written |-> TRUE, content |-> Serialize(new_image)]
    /\ pc' = "back"
    /\ UNCHANGED <<args, file, providers, ncameras, nlenses, err, src, new_image,
                   res, px, py, xs, ys, xs_undist, ys_undist, ret, imgVars, scanVars>>

\* for (i = 0; i < 4; i++) back_modifier.ApplyGeometryDistortion(x[i], y[i], 1, 1, result)...
BackProject ==
    /\ pc = "back"
    /\ xs' = [i \in 1..6 |-> IF i <= 4 THEN PointMap(providers.back, xs[i], ys[i])[1]
                                         ELSE xs[i]]
    /\ ys' = [i \in 1..6 |-> IF i <= 4 THEN PointMap(providers.back, xs[i], ys[i])[2]
                                         ELSE ys[i]]
    /\ pc' = "return"
    /\ UNCHANGED <<args, file, providers, ncameras, nlenses, err, src, new_image,
                   res, px, py, xs_undist, ys_undist, disk, ret, imgVars, scanVars>>

\* The far corner in place of the width and the height
BoundingBox_far_corner(x, y) ==
    << Min(x[1], x[3]), Min(y[1], y[2]), Max(x[2], x[4]), Max(y[3], y[4]) >>

\* Py_BuildValue("ffff", ...); x[0] of the code is x[1] here
BoundingBox(x, y) ==
    << Min(x[1], x[3]), Min(y[1], y[2]),
       Max(x[2], x[4]) - Min(x[1], x[3]), Max(y[3], y[4]) - Min(y[1], y[2]) >>

Return ==
    /\ pc = "return"
    /\ ret' = [kind |-> "bbox", value |-> BoundingBox(xs, ys)]
    /\ pc' = "done"
    /\ UNCHANGED <<args, file, providers, ncameras, nlenses, err, src, new_image,
                   res, px, py, xs, ys, xs_undist, ys_undist, disk, imgVars, scanVars>>

NextUndistort ==
    \/ LoadDatabase
    \/ FindCamera
    \/ FindLens
    \/ ParseFile
    \/ EnableDistortion
    \/ EnableTCA
    \/ BuildRefs
    \/ EnablePerspective
    \/ ComputeMap
    \/ RemapPixel
    \/ WriteFile
    \/ BackProject
    \/ Return

----------------------------------------------------------------------------
(* undistort(): the inputs of a call *)

Corners(x0, y0, x1, y1, x2, y2, x3, y3) ==
    [x0 |-> x0, y0 |-> y0, x1 |-> x1, y1 |-> y1,
     x2 |-> x2, y2 |-> y2, x3 |-> x3, y3 |-> y3]

\* The corners of the rectangle (10, 10), (90, 10), (10, 90), (90, 90)
RectCorners == Corners(10, 10, 90, 10, 10, 90, 90, 90)

\* Top-left, top-right, bottom-left and bottom-right corner, each up to
\* MaxSkew pixels right of and below its place in that rectangle
CornerGrid ==
    { Corners(10 + a, 10 + b, 90 + c, 10 + d, 10 + e, 90 + f, 90 + g, 90 + h) :
        a \in 0..MaxSkew, b \in 0..MaxSkew, c \in 0..MaxSkew, d \in 0..MaxSkew,
        e \in 0..MaxSkew, f \in 0..MaxSkew, g \in 0..MaxSkew, h \in 0..MaxSkew }

\* A greyscale raster of one pixel
TinyFile == [magic |-> "P5", width |-> 1, height |-> 1, maxval |-> 255,
             bytes |-> <<200>>]

\* A call of undistort(): either any of the streams with the rectangle's
\* corners and any coordinate maps, or the one-pixel raster with any corners
\* of the grid and any back map.
InitUndistort ==
    /\ pc = "load"
    /\ \/ /\ file \in Streams
          /\ args = RectCorners
          /\ providers \in [full : MapKinds, ref : MapKinds, back : MapKinds]
       \/ /\ file = TinyFile
          /\ args \in CornerGrid
          /\ providers \in [full : {"identity"}, ref : {"identity"}, back : MapKinds]
    /\ ncameras = -1
    /\ nlenses = -1
    /\ err = NoError
    /\ src = NoImage
    /\ new_image = NoImage
    /\ res = << >>
    /\ px = 0
    /\ py = 0
    /\ xs = << >>
    /\ ys = << >>
    /\ xs_undist = << >>
    /\ ys_undist = << >>
    /\ disk = NotWritten
    /\ ret = NotReturned
    /\ ImageIdle
    /\ ScanIdle

SpecUndistort == InitUndistort /\ [][NextUndistort]_vars

----------------------------------------------------------------------------
(* Claims about undistort(), checked under SpecUndistort *)

\* Corner i of the arguments (0 top left, 1 top right, 2 bottom left,
\* 3 bottom right) projected through the back modifier
BackCorner(i) ==
    CASE i = 0 -> PointMap(providers.back, args.x0, args.y0)
      [] i = 1 -> PointMap(providers.back, args.x1, args.y1)
      [] i = 2 -> PointMap(providers.back, args.x2, args.y2)
      [] OTHER -> PointMap(providers.back, args.x3, args.y3)

\* C4: with (xi, yi) the back-projection of corner i, 0 = top left,
\* 1 = top right, 2 = bottom left, 3 = bottom right, undistort returns
\* [min(x0,x2), min(y0,y1), max(x1,x3) - min(x0,x2), max(y2,y3) - min(y0,y1)].
C4_BoundingBoxFormula ==
    (pc = "done" /\ ret.kind = "bbox") =>
        LET x0 == BackCorner(0)[1]  y0 == BackCorner(0)[2]
            x1 == BackCorner(1)[1]  y1 == BackCorner(1)[2]
            x2 == BackCorner(2)[1]  y2 == BackCorner(2)[2]
            x3 == BackCorner(3)[1]  y3 == BackCorner(3)[2]
        IN  ret.value = << Min(x0, x2), Min(y0, y1),
                           Max(x1, x3) - Min(x0, x2), Max(y2, y3) - Min(y0, y1) >>

\* C5: a run that raises an error has not started the remap loop, has not
\* written the output image and returns no bounding box; a run that has
\* written the output image ends returning the bounding box.
C5_FailureAtomicity ==
    /\ err # NoError =>
          /\ ~disk.written
          /\ ret.kind # "bbox"
          /\ res = << >>
          /\ new_image = NoImage
    /\ ret.kind \in {"NULL", "throw"} => (err # NoError /\ ~disk.written)
    /\ (pc = "done" /\ disk.written) => ret.kind = "bbox"

\* The last failure undistort can raise, on a parsed raster of three channels
C5_Witness ==
    /\ pc = "done"
    /\ ret.kind = "NULL"
    /\ err.text = "Failed to activate perspective correction"
    /\ src.channels = 3
    /\ xs_undist # << >>

\* C6: in the camera lookup and in the lens lookup, the error raised when no
\* entry matches differs from the error raised when two or more match, and
\* one match raises neither.
C6_DistinguishableLookupFailures ==
    /\ (pc = "done" /\ ncameras \notin {-1, 1}) =>
          \A m \in (0..MaxMatches) \ {1} :
              ((m = 0) # (ncameras = 0)) => CameraError(m) # err
    /\ (pc = "done" /\ nlenses \notin {-1, 1}) =>
          \A m \in (0..MaxMatches) \ {1} :
              ((m = 0) # (nlenses = 0)) => LensError(m) # err
    /\ (ncameras = 1 /\ nlenses = -1) => (err = NoError /\ pc = "lens")
    /\ (nlenses = 1 /\ pc = "parse") => err = NoError

\* The remap loop has run to its end
RemapDone == res # << >> /\ px >= src.width

\* C7: with the identity as the full modifier's map, the remap of a raster
\* of one byte per channel yields a raster of the same width, height,
\* channels and depth whose every sample is the source's, and leaves the
\* source's buffer as it was parsed.
C7_IdentityRemap ==
    (RemapDone /\ providers.full = "identity" /\ src.channel_size = 1) =>
        /\ new_image.width = src.width
        /\ new_image.height = src.height
        /\ new_image.channels = src.channels
        /\ new_image.channel_size = src.channel_size
        /\ Len(new_image.data) = Len(src.data)
        /\ \A x \in 0..(src.width - 1), y \in 0..(src.height - 1),
              c \in 0..(src.channels - 1) :
                get(new_image, x, y, c) = get(src, x, y, c)
        /\ src = Parse(NoImage, file).img

\* An RGB raster of two rows and two columns with differing samples, remapped
\* by the identity and written
C7_Witness ==
    /\ RemapDone
    /\ disk.written
    /\ providers.full = "identity"
    /\ src.channel_size = 1
    /\ src.channels = 3
    /\ src.width = 2
    /\ src.height = 2
    /\ get(src, 1, 0, 0) # get(src, 0, 1, 0)

\* The corners of a rectangle whose edges are parallel to the axes
AxisAligned(a) ==
    /\ a.x0 = a.x2
    /\ a.x1 = a.x3
    /\ a.y0 = a.y1
    /\ a.y2 = a.y3
    /\ a.x0 < a.x1
    /\ a.y0 < a.y2

\* C8: for the corners (a,b), (c,b), (a,d), (c,d) with a < c, b < d and the
\* identity as back map, the back-projected corners are the corners given
\* and undistort returns [a, b, c - a, d - b].
C8_AxisAlignedIdentity ==
    (pc = "done" /\ ret.kind = "bbox" /\ providers.back = "identity"
       /\ AxisAligned(args)) =>
        /\ <<xs[1], ys[1]>> = <<args.x0, args.y0>>
        /\ <<xs[2], ys[2]>> = <<args.x2, args.y2>>
        /\ <<xs[3], ys[3]>> = <<args.x1, args.y1>>
        /\ <<xs[4], ys[4]>> = <<args.x3, args.y3>>
        /\ ret.value = << args.x0, args.y0, args.x1 - args.x0, args.y2 - args.y0 >>

\* The rectangle (11, 10), (90, 10), (11, 90), (90, 90) under the identity
C8_Witness ==
    /\ pc = "done"
    /\ providers.back = "identity"
    /\ AxisAligned(args)
    /\ args.x0 = 11
    /\ ret = [kind |-> "bbox", value |-> <<11, 10, 79, 80>>]

----------------------------------------------------------------------------
(* analyze_scan: main() from the histogram on.  dst_norm is what normalize  *)
(* leaves: floats from 0 to 255, here numerators over Den.                 *)

\* dst_norm.at<float>(j, i)
At(m, j, i) == m.at[j * m.cols + i + 1]

\* (int) dst_norm.at<float>(j, i)
Index(m, j, i) == FloatToInt(At(m, j, i))

\* The quadrant of column i, row j
Quadrant(m, j, i) ==
    IF i < m.cols \div 2
    THEN (IF j < m.rows \div 2 THEN 0 ELSE 1)
    ELSE (IF j < m.rows \div 2 THEN 2 ELSE 3)

\* The pixels (j, i) in the order of the two nested loops
Pixels(m) == [k \in 1..(m.rows * m.cols) |-> <<(k - 1) \div m.cols, (k - 1) % m.cols>>]

\* The two counting loops from pixel k on: occurences[quadrant][index]++
RECURSIVE CountPixels(_, _, _)
CountPixels(m, k, occ) ==
    IF k > m.rows * m.cols
    THEN occ
    ELSE LET j == (k - 1) \div m.cols
             i == (k - 1) % m.cols
         IN  CountPixels(m, k + 1,
                         [occ EXCEPT ![Quadrant(m, j, i)][Index(m, j, i)] = @ + 1])

\* occurences after the fill and the counting loops
Histogram(m) ==
    CountPixels(m, 1, [q \in 0..3 |-> [t \in 0..(Bins - 1) |-> 0]])

\* corners_found[i] = occurences[i][threshold], forgetting the bins above
Accumulate_no_sum(found, occ, t) == [i \in 0..3 |-> occ[i][t]]

\* corners_found[i] += occurences[i][threshold], for the four quadrants
Accumulate(found, occ, t) == [i \in 0..3 |-> found[i] + occ[i][t]]

\* The points written: every pixel whose index reaches the threshold, as [i, j]
PointList(m, t) ==
    LET Reaches(p) == Index(m, p[1], p[2]) >= t
        chosen == SelectSeq(Pixels(m), Reaches)
    IN  [k \in 1..Len(chosen) |-> <<chosen[k][2], chosen[k][1]>>]

\* int occurences[4][256] filled and counted; threshold = 255 and
\* corners_found = {0, 0, 0, 0} at the head of the loop
CountOccurences ==
    /\ spc = "count"
    /\ occurences' = Histogram(dst_norm)
    /\ corners_found' = [i \in 0..3 |-> 0]
    /\ threshold' = Bins - 1
    /\ spc' = "search"
    /\ UNCHANGED <<dst_norm, points, imgVars, undVars>>

\* One pass of for (threshold = 255; threshold >= 0; threshold--)
ThresholdStep ==
    /\ spc = "search"
    /\ threshold >= 0
    /\ corners_found' = Accumulate(corners_found, occurences, threshold)
    /\ IF \A i \in 0..3 : corners_found'[i] # 0
       THEN spc' = "output" /\ threshold' = threshold
       ELSE spc' = spc /\ threshold' = threshold - 1
    /\ UNCHANGED <<dst_norm, occurences, points, imgVars, undVars>>

\* The loop ends without a break
ThresholdExhausted ==
    /\ spc = "search"
    /\ threshold < 0
    /\ spc' = "output"
    /\ UNCHANGED <<dst_norm, occurences, corners_found, threshold, points,
                   imgVars, undVars>>

\* The threshold and the points are written
WritePoints ==
    /\ spc = "output"
    /\ points' = PointList(dst_norm, threshold)
    /\ spc' = "done"
    /\ UNCHANGED <<dst_norm, occurences, corners_found, threshold, imgVars, undVars>>

NextScan == CountOccurences \/ ThresholdStep \/ ThresholdExhausted \/ WritePoints

Matrices ==
    UNION { [rows : {r}, cols : {c}, at : [1..(r * c) -> ScanValues]] :
              r \in 1..2, c \in 1..MaxCols }

InitScan ==
    /\ dst_norm \in Matrices
    /\ occurences = << >>
    /\ corners_found = << >>
    /\ threshold = 0
    /\ spc = "count"
    /\ points = << >>
    /\ ImageIdle
    /\ UndistortIdle

SpecScan == InitScan /\ [][NextScan]_vars

\* main() runs on: each statement is executed once control reaches it
FairSpecScan == SpecScan /\ WF_vars(NextScan)

----------------------------------------------------------------------------
(* The claim about analyze_scan, checked under FairSpecScan *)

\* Every quadrant holds a pixel
EveryQuadrantHasPixel ==
    \A q \in 0..3 :
        \E k \in 1..(dst_norm.rows * dst_norm.cols) :
            Quadrant(dst_norm, Pixels(dst_norm)[k][1], Pixels(dst_norm)[k][2]) = q

\* Every quadrant holds a pixel whose index is at least t
EveryQuadrantReaches(t) ==
    \A q \in 0..3 :
        \E k \in 1..(dst_norm.rows * dst_norm.cols) :
            /\ Quadrant(dst_norm, Pixels(dst_norm)[k][1], Pixels(dst_norm)[k][2]) = q
            /\ Index(dst_norm, Pixels(dst_norm)[k][1], Pixels(dst_norm)[k][2]) >= t

\* What the search has found once it is over
SearchResult ==
    (spc \in {"output", "done"} /\ EveryQuadrantHasPixel) =>
        /\ threshold \in 0..(Bins - 1)
        /\ EveryQuadrantReaches(threshold)
        /\ \A t \in (threshold + 1)..(Bins - 1) : ~EveryQuadrantReaches(t)
        /\ spc = "done" =>
              \A q \in 0..3 :
                  \E k \in 1..Len(points) :
                      Quadrant(dst_norm, points[k][2], points[k][1]) = q

\* C10: when each quadrant holds a pixel, the descending loop ends, with the
\* threshold the greatest t in 0..255 such that every quadrant holds a pixel
\* of index >= t (never -1), and the points written include one of each
\* quadrant.
C10_ThresholdSearch == <>(spc = "done") /\ []SearchResult

\* A search over four quadrants, one of them holding nothing above 0 and
\* another holding 255, that stopped in the last pass of the loop
C10_Witness ==
    /\ spc = "done"
    /\ EveryQuadrantHasPixel
    /\ threshold = 0
    /\ \E k \in 1..Len(points) : Index(dst_norm, points[k][2], points[k][1]) = 255
    /\ Len(points) = dst_norm.rows * dst_norm.cols

============================================================================
